---- MODULE Spec2Model ----
(***************************************************************************)
(* pH Scale: the numeric model (doc/model.md) and its callers in the view. *)
(*                                                                         *)
(* Numbers are exact.  A quantity (concentration, moles, volume) is a      *)
(* rational whose numerator and denominator are decimal expansions         *)
(* (exponent -> coefficient), so that values as far apart as 10^-15 and    *)
(* 10^15 are held without loss.  A pH is a real of the form                *)
(* k + log10(q), k an integer and q a positive rational: this is closed    *)
(* under the operations of the model (negation, adding 14, log10 of a      *)
(* quantity) and 10^pH is again a quantity.                                *)
(***************************************************************************)
EXTENDS Integers, FiniteSets, Sequences, TLC

VARIABLES pH1, V1, pH2, V2, op, usedV, out

\* Solute: whether assertions are enabled in the build, the solute object,
\* the pH its constructor was called with, the last operation on it and the
\* color last computed from it
VARIABLES assertEnabled, solute, soluteArg, soluteOp, color

\* RatioNode: the solution's total volume and pH, the node (visibility,
\* cached pH and the molecules canvas), the published H3O+/OH- ratio, the
\* node's clip area and the last operation
VARIABLES totalVolumeProperty, pHProperty, ratioNode, ratioValue, clipArea, ratioOp

\* GraphNode: the node with its properties and the state of its children,
\* the last operation on it, and whether that operation found the graph
\* different from a newly constructed one
VARIABLES graph, graphOp, graphBefore
VARIABLES viewOp, viewArg, viewOut

coreVars == <<pH1, V1, pH2, V2, op, usedV, out>>
soluteVars == <<assertEnabled, solute, soluteArg, soluteOp, color>>
ratioVars == <<totalVolumeProperty, pHProperty, ratioNode, ratioValue, clipArea, ratioOp>>
graphVars == <<graph, graphOp, graphBefore>>
viewVars == <<viewOp, viewArg, viewOut>>
vars == <<coreVars, soluteVars, ratioVars, graphVars, viewVars>>

----------------------------------------------------------------------------
(* Bounds and program constants *)

\* volumes are drawn in tenths of a litre, from 0 to MaxVolTenths
MaxVolTenths == 3
\* the inverse functions are also given the volumes -NegVolTenths .. -1
NegVolTenths == 1

PH_RANGE_MIN == -1
PH_RANGE_MAX == 15
NEUTRAL_PH == 7
WATER_MOLARITY == 55
MAX_VOLUME_TENTHS == 12

----------------------------------------------------------------------------
(* Decimal expansions: a function from a finite set of exponents to integer *)
(* coefficients, denoting the sum of coef * 10^exponent                     *)

PCoef(p, e) == IF e \in DOMAIN p THEN p[e] ELSE 0

PZero == [e \in {} |-> 0]

SetMin(S) == CHOOSE x \in S : \A y \in S : x <= y
SetMax(S) == CHOOSE x \in S : \A y \in S : x >= y

\* carries propagated from exponent e up: every coefficient becomes a digit
\* 0..9, but the topmost, which holds the sign of a negative number; zero
\* coefficients are dropped
RECURSIVE NormFrom(_, _, _, _)
NormFrom(p, e, hi, carry) ==
  IF e > hi /\ carry = 0 THEN PZero
  ELSE IF e > hi /\ carry > -10 /\ carry < 10 THEN (e :> carry)
  ELSE LET t == PCoef(p, e) + carry
           d == t % 10
       IN  (IF d = 0 THEN PZero ELSE (e :> d)) @@ NormFrom(p, e + 1, hi, t \div 10)

PNorm(p) ==
  IF DOMAIN p = {} THEN PZero
  ELSE NormFrom(p, SetMin(DOMAIN p), SetMax(DOMAIN p), 0)

PInt(c) == PNorm([e \in {0} |-> c])

PScale(a, c) == [e \in DOMAIN a |-> c * a[e]]

PAdd(a, b) ==
  PNorm([e \in (DOMAIN a) \cup (DOMAIN b) |-> PCoef(a, e) + PCoef(b, e)])

PNeg(a) == PNorm(PScale(a, -1))

PSub(a, b) == PAdd(a, PScale(b, -1))

\* a * 10^k
PShift(a, k) == [e \in {i + k : i \in DOMAIN a} |-> a[e - k]]

RECURSIVE PConv(_, _, _, _)
PConv(a, b, e, S) ==
  IF S = {} THEN 0
  ELSE LET i == CHOOSE x \in S : TRUE
       IN  (IF (e - i) \in DOMAIN b THEN a[i] * b[e - i] ELSE 0)
           + PConv(a, b, e, S \ {i})

PMul(a, b) ==
  PNorm([e \in {i + j : i \in DOMAIN a, j \in DOMAIN b} |-> PConv(a, b, e, DOMAIN a)])

\* sign of the denoted number: that of the topmost non-zero coefficient
\* once the carries are propagated
PSign(p) ==
  LET n == PNorm(p)
  IN  IF DOMAIN n = {} THEN 0
      ELSE IF n[SetMax(DOMAIN n)] > 0 THEN 1 ELSE -1

----------------------------------------------------------------------------
(* Rationals n/d with d > 0 *)

QInt(c) == [n |-> PInt(c), d |-> PInt(1)]

QFrac(a, b) == [n |-> PInt(a), d |-> PInt(b)]

QSign(a) == PSign(a.n)

QAdd(a, b) == [n |-> PAdd(PMul(a.n, b.d), PMul(b.n, a.d)), d |-> PMul(a.d, b.d)]

QMul(a, b) == [n |-> PMul(a.n, b.n), d |-> PMul(a.d, b.d)]

\* b # 0
QDiv(a, b) ==
  IF PSign(b.n) > 0
  THEN [n |-> PMul(a.n, b.d), d |-> PMul(a.d, b.n)]
  ELSE [n |-> PNeg(PMul(a.n, b.d)), d |-> PNeg(PMul(a.d, b.n))]

QCmp(a, b) == PSign(PSub(PMul(a.n, b.d), PMul(b.n, a.d)))

QEq(a, b) == QCmp(a, b) = 0

QLt(a, b) == QCmp(a, b) < 0

\* a * 10^k
QShift(a, k) == [n |-> PShift(a.n, k), d |-> a.d]

----------------------------------------------------------------------------
(* Reals of the form k + log10(q), q > 0 *)

RInt(k) == [k |-> k, q |-> QInt(1)]

RNeg(x) == [k |-> 0 - x.k, q |-> QDiv(QInt(1), x.q)]

RAdd(x, y) == [k |-> x.k + y.k, q |-> QMul(x.q, y.q)]

\* 10^x
Pow10(x) == QShift(x.q, x.k)

\* log10(c), c > 0
Log10(c) == [k |-> 0, q |-> c]

RCmp(x, y) == QCmp(Pow10(x), Pow10(y))

REq(x, y) == RCmp(x, y) = 0

RLt(x, y) == RCmp(x, y) < 0

RLe(x, y) == RCmp(x, y) <= 0

----------------------------------------------------------------------------
(* Values handed between operations *)

NoneOut == [tag |-> "none", pH |-> RInt(0), q |-> QInt(0)]

\* a DomainError signalled instead of a value
ErrOut == [tag |-> "error", pH |-> RInt(0), q |-> QInt(0)]

\* a null pH or ratio (empty beaker)
NullOut == [tag |-> "null", pH |-> RInt(0), q |-> QInt(0)]

PHOut(x) == [tag |-> "pH", pH |-> x, q |-> QInt(0)]

QOut(c) == [tag |-> "quantity", pH |-> RInt(0), q |-> c]

\* a volume given in tenths of a litre
Litres(v) == QFrac(v, 10)

----------------------------------------------------------------------------
(* The model: doc/model.md, "Computations" *)

AVOGADRO_MANTISSA == 6023
AVOGADRO_EXPONENT == 20

\* A = 6.023E23
Avogadro == QShift(QInt(AVOGADRO_MANTISSA), AVOGADRO_EXPONENT)

\* [H3O+] = 10^-pH
pHToConcentrationH3O(pH) == Pow10(RNeg(pH))

\* variant: the exponent written as 14-pH
pHToConcentrationOH_Flipped(pH) == Pow10(RAdd(RInt(14), RNeg(pH)))

\* [OH-] = 10^(pH-14)
pHToConcentrationOH(pH) == Pow10(RAdd(pH, RInt(-14)))

\* [H2O] = 55 / V
concentrationH2OFormula(V) == QDiv(QInt(WATER_MOLARITY), V)

\* number of molecules of H3O+ = 10^-pH * A * V
moleculesH3O(pH, V) == QMul(QMul(pHToConcentrationH3O(pH), Avogadro), V)

\* number of molecules of OH- = 10^(pH-14) * A * V
moleculesOH(pH, V) == QMul(QMul(pHToConcentrationOH(pH), Avogadro), V)

\* variant: the volume is left out
moleculesH2O_NoVolume(V) == QMul(QInt(WATER_MOLARITY), Avogadro)

\* number of molecules of H2O = 55 * A * V
moleculesH2O(V) == QMul(QMul(QInt(WATER_MOLARITY), Avogadro), V)

\* a number of molecules as a number of moles (A molecules per mole)
moleculesToMoles(N) == QDiv(N, Avogadro)

molesH3O(pH, V) == moleculesToMoles(moleculesH3O(pH, V))

molesOH(pH, V) == moleculesToMoles(moleculesOH(pH, V))

molesH2O(V) == moleculesToMoles(moleculesH2O(V))

\* V_T = V_1 + V_2
totalVolume(Va, Vb) == QAdd(Va, Vb)

\* variant: the sum is divided by the first volume instead of V_T
combineAcids_FirstVolume(pHa, Va, pHb, Vb) ==
  RNeg(Log10(QDiv(QAdd(QMul(Pow10(RNeg(pHa)), Va), QMul(Pow10(RNeg(pHb)), Vb)),
                  Va)))

\* combining 2 acids (or acid and water):
\* pH = -log( ( 10^-pH1 * V1 + 10^-pH2 * V2 ) / V_T )
combineAcids(pHa, Va, pHb, Vb) ==
  RNeg(Log10(QDiv(QAdd(QMul(Pow10(RNeg(pHa)), Va), QMul(Pow10(RNeg(pHb)), Vb)),
                  totalVolume(Va, Vb))))

\* combining 2 bases (or base and water), as doc/model.md writes it:
\* pH = 14 + log( ( 10^(pH1-14) * V1 + 10^(14-pH2) * V2 ) / V_T )
combineBases(pHa, Va, pHb, Vb) ==
  RAdd(RInt(14),
       Log10(QDiv(QAdd(QMul(Pow10(RAdd(pHa, RInt(-14))), Va),
                       QMul(Pow10(RAdd(RInt(14), RNeg(pHb))), Vb)),
                  totalVolume(Va, Vb))))

\* variant: the minus sign is dropped
concentrationH3OToPH_NoMinus(c) == Log10(c)

\* pH = -log( [H3O+] )
concentrationH3OToPH(c) == RNeg(Log10(c))

\* pH = 14 + log( [OH-] )
concentrationOHToPH(c) == RAdd(RInt(14), Log10(c))

\* variant: multiplied by the volume instead of divided
molesToConcentration_Times(n, V) == QMul(n, V)

\* (#moles) / V_T
molesToConcentration(n, V) == QDiv(n, V)

\* variant: no check of the volume
molesH3OToPH_Unchecked(n, V) ==
  PHOut(concentrationH3OToPH(molesToConcentration(n, V)))

\* pH = -log( (#moles H3O+) / V_T ); a DomainError unless V > 0 and n > 0
molesH3OToPH(n, V) ==
  IF QSign(V) <= 0 \/ QSign(n) <= 0 THEN ErrOut
  ELSE PHOut(concentrationH3OToPH(molesToConcentration(n, V)))

\* pH = 14 + log( (#moles OH-) / V_T ); a DomainError unless V > 0 and n > 0
molesOHToPH(n, V) ==
  IF QSign(V) <= 0 \/ QSign(n) <= 0 THEN ErrOut
  ELSE PHOut(concentrationOHToPH(molesToConcentration(n, V)))

concentrationH2O_Unchecked(V) == QOut(concentrationH2OFormula(V))

\* [H2O] = 55 / V; a DomainError unless V > 0
concentrationH2O(V) ==
  IF QSign(V) <= 0 THEN ErrOut ELSE QOut(concentrationH2OFormula(V))

\* 0.015 L, the minimum non-zero volume of a solution
MIN_SOLUTION_VOLUME == QFrac(15, 1000)

\* the volume a caller passes on: the minimum volume for an empty beaker
substituteMinimumVolume(V) == IF QSign(V) = 0 THEN MIN_SOLUTION_VOLUME ELSE V

\* RatioNode's ratioProperty: null for a null pH, else [H3O+] / [OH-]
ratioProperty(pH) ==
  IF pH.tag = "null" THEN NullOut
  ELSE QOut(QDiv(pHToConcentrationH3O(pH.pH), pHToConcentrationOH(pH.pH)))

\* the solution's pH as the view reads it: null if the beaker is empty
solutionPH(pH, v) == IF v = 0 THEN NullOut ELSE PHOut(pH)

----------------------------------------------------------------------------
(* Inputs *)

\* whole pH values of PH_RANGE and, between them, the values k + log10(3)
PHInputs ==
  {RInt(k) : k \in PH_RANGE_MIN..PH_RANGE_MAX}
    \cup {[k |-> k, q |-> QInt(3)] : k \in PH_RANGE_MIN..(PH_RANGE_MAX - 1)}

\* small volumes, one litre, and the largest volume of the model (1.2 L)
VolumeInputs == (0..MaxVolTenths) \cup {10, MAX_VOLUME_TENTHS}

\* the volume argument of the inverse functions, which may be <= 0
VolumeArgs == ((0 - NegVolTenths)..(0 - 1)) \cup VolumeInputs

Neutral == RInt(NEUTRAL_PH)

\* no solute has been constructed
NoSolute ==
  [status |-> "none", name |-> "", pH |-> 0, stockColor |-> "",
   dilutedColor |-> "", colorStopColor |-> "", colorStopRatio |-> 0]

SoluteIdle ==
  /\ assertEnabled = TRUE
  /\ solute = NoSolute
  /\ soluteArg = 0
  /\ soluteOp = "init"
  /\ color = "none"

\* a nullable number: <<>> is null, <<x>> the number x
Null == <<>>

\* no RatioNode has been constructed
RatioIdle ==
  /\ totalVolumeProperty = 0
  /\ pHProperty = Null
  /\ ratioNode = Null
  /\ ratioValue = Null
  /\ clipArea = "null"
  /\ ratioOp = "init"

\* no GraphNode has been constructed
GraphIdle ==
  /\ graph = Null
  /\ graphOp = "init"
  /\ graphBefore = Null

\* no function of the view has been applied
ViewIdle ==
  /\ viewOp = "init"
  /\ viewArg = Null
  /\ viewOut = Null

\* the numeric model is not in use
CoreIdle ==
  /\ pH1 = RInt(NEUTRAL_PH) /\ V1 = 0 /\ pH2 = RInt(NEUTRAL_PH) /\ V2 = 0
  /\ op = "init" /\ usedV = 0 /\ out = NoneOut

\* one liquid is in the beaker; no second liquid has been added yet
Init ==
  /\ SoluteIdle
  /\ RatioIdle
  /\ GraphIdle
  /\ ViewIdle
  /\ pH1 \in PHInputs
  /\ V1 \in VolumeInputs
  /\ pH2 = Neutral
  /\ V2 = 0
  /\ op = "init"
  /\ usedV = 0
  /\ out = NoneOut

----------------------------------------------------------------------------
(* Operations: each computes one function of the model on the liquid in     *)
(* the beaker; the inverse functions take the quantity just computed        *)

Apply(name, v, result) ==
  /\ op' = name
  /\ usedV' = v
  /\ out' = result
  /\ UNCHANGED <<pH1, V1>>
  /\ UNCHANGED <<soluteVars, ratioVars, graphVars, viewVars>>

\* a second acid, or water, is added; V_T > 0
CombineAcids ==
  /\ op = "init"
  /\ \E p \in PHInputs, v \in VolumeInputs :
       /\ RLe(pH1, Neutral) /\ RLe(p, Neutral)
       /\ V1 + v > 0
       /\ pH2' = p /\ V2' = v
       /\ Apply("combineAcids", V1, PHOut(combineAcids(pH1, Litres(V1), p, Litres(v))))

\* a second base, or water, is added; V_T > 0
CombineBases ==
  /\ op = "init"
  /\ \E p \in PHInputs, v \in VolumeInputs :
       /\ RLe(Neutral, pH1) /\ RLe(Neutral, p)
       /\ V1 + v > 0
       /\ pH2' = p /\ V2' = v
       /\ Apply("combineBases", V1, PHOut(combineBases(pH1, Litres(V1), p, Litres(v))))

ConcentrationH3O ==
  /\ op = "init"
  /\ Apply("concentrationH3O", V1, QOut(pHToConcentrationH3O(pH1)))
  /\ UNCHANGED <<pH2, V2>>

ConcentrationOH ==
  /\ op = "init"
  /\ Apply("concentrationOH", V1, QOut(pHToConcentrationOH(pH1)))
  /\ UNCHANGED <<pH2, V2>>

\* the H3O+ indicator is dragged to a concentration: the pH follows
PHFromConcentrationH3O ==
  /\ op = "concentrationH3O"
  /\ Apply("pHFromConcentrationH3O", V1, PHOut(concentrationH3OToPH(out.q)))
  /\ UNCHANGED <<pH2, V2>>

\* the OH- indicator is dragged to a concentration: the pH follows
PHFromConcentrationOH ==
  /\ op = "concentrationOH"
  /\ Apply("pHFromConcentrationOH", V1, PHOut(concentrationOHToPH(out.q)))
  /\ UNCHANGED <<pH2, V2>>

ConcentrationH2O ==
  /\ op = "init"
  /\ Apply("concentrationH2O", V1, concentrationH2O(Litres(V1)))
  /\ UNCHANGED <<pH2, V2>>

\* the function is called with a volume as it is, negative ones included
ConcentrationH2OOfVolume ==
  /\ op = "init"
  /\ \E v \in VolumeArgs :
       Apply("concentrationH2OOfVolume", v, concentrationH2O(Litres(v)))
  /\ UNCHANGED <<pH2, V2>>

\* the caller substitutes the minimum volume for an empty beaker
ConcentrationH2OWithFloor ==
  /\ op = "init"
  /\ Apply("concentrationH2OWithFloor", V1,
           concentrationH2O(substituteMinimumVolume(Litres(V1))))
  /\ UNCHANGED <<pH2, V2>>

MolesH3O ==
  /\ op = "init"
  /\ Apply("molesH3O", V1, QOut(molesH3O(pH1, Litres(V1))))
  /\ UNCHANGED <<pH2, V2>>

MolesOH ==
  /\ op = "init"
  /\ Apply("molesOH", V1, QOut(molesOH(pH1, Litres(V1))))
  /\ UNCHANGED <<pH2, V2>>

MolesH2O ==
  /\ op = "init"
  /\ Apply("molesH2O", V1, QOut(molesH2O(Litres(V1))))
  /\ UNCHANGED <<pH2, V2>>

\* the H3O+ indicator is dragged to a quantity: the pH follows
PHFromMolesH3O ==
  /\ op = "molesH3O"
  /\ \E v \in VolumeArgs :
       Apply("pHFromMolesH3O", v, molesH3OToPH(out.q, Litres(v)))
  /\ UNCHANGED <<pH2, V2>>

\* the OH- indicator is dragged to a quantity: the pH follows
PHFromMolesOH ==
  /\ op = "molesOH"
  /\ \E v \in VolumeArgs :
       Apply("pHFromMolesOH", v, molesOHToPH(out.q, Litres(v)))
  /\ UNCHANGED <<pH2, V2>>

\* RatioNode's ratioProperty is derived from the solution's pH
Ratio ==
  /\ op = "init"
  /\ Apply("ratio", V1, ratioProperty(solutionPH(pH1, V1)))
  /\ UNCHANGED <<pH2, V2>>

Next ==
  \/ CombineAcids
  \/ CombineBases
  \/ ConcentrationH3O
  \/ ConcentrationOH
  \/ PHFromConcentrationH3O
  \/ PHFromConcentrationOH
  \/ ConcentrationH2O
  \/ ConcentrationH2OOfVolume
  \/ ConcentrationH2OWithFloor
  \/ MolesH3O
  \/ MolesOH
  \/ MolesH2O
  \/ PHFromMolesH3O
  \/ PHFromMolesOH
  \/ Ratio

Spec == Init /\ [][Next]_vars

TypeOK ==
  /\ out.tag \in {"none", "error", "null", "pH", "quantity"}
  /\ V1 \in VolumeInputs /\ V2 \in VolumeInputs

----------------------------------------------------------------------------
(* Properties *)

Combined == op \in {"combineAcids", "combineBases"}

\* the combination of the same two liquids taken in the other order
Swapped ==
  IF op = "combineAcids"
  THEN combineAcids(pH2, Litres(V2), pH1, Litres(V1))
  ELSE combineBases(pH2, Litres(V2), pH1, Litres(V1))

TenToMinus14 == Pow10(RInt(-14))

\* C1: combining two liquids of the same class gives the same pH whichever
\* of the two is taken first, for the acid formula and for the base formula
C1_CombineCommutes == Combined => REq(out.pH, Swapped)

\* C2: combining two liquids of the same pH p gives pH p
C2_SamePHUnchanged == (Combined /\ REq(pH1, pH2)) => REq(out.pH, pH1)

\* C3: an acid (pH < 7) combined with water (pH 7), both volumes positive,
\* has a pH strictly greater than the acid's
C3_DilutionRaisesAcidPH ==
  (op = "combineAcids" /\ V1 > 0 /\ V2 > 0) =>
     /\ (RLt(pH1, Neutral) /\ REq(pH2, Neutral)) => RLt(pH1, out.pH)
     /\ (RLt(pH2, Neutral) /\ REq(pH1, Neutral)) => RLt(pH2, out.pH)

C3_Witness ==
  /\ op = "combineAcids"
  /\ pH1 = RInt(2) /\ V1 = 2 /\ pH2 = Neutral /\ V2 = 2
  /\ RLt(RInt(2), out.pH) /\ RLt(out.pH, RInt(3))

\* C4: when both liquids are neutral the acid formula and the base formula
\* give the same pH, 7, whatever the volumes
C4_BranchesAgreeAtNeutral ==
  (Combined /\ REq(pH1, Neutral) /\ REq(pH2, Neutral)) =>
     /\ REq(combineAcids(pH1, Litres(V1), pH2, Litres(V2)),
            combineBases(pH1, Litres(V1), pH2, Litres(V2)))
     /\ REq(out.pH, Neutral)

\* C5: the pH computed from the H3O+ concentration of a pH is that pH
C5_RoundTripConcentrationH3O ==
  (op = "pHFromConcentrationH3O") => REq(out.pH, pH1)

C5_Witness ==
  /\ op = "pHFromConcentrationH3O"
  /\ pH1 = [k |-> 2, q |-> QInt(3)]
  /\ REq(out.pH, pH1)

\* C6: [H3O+] * [OH-] = 1e-14 for every pH, and the ratio that RatioNode
\* publishes is 10^(14 - 2 pH)
C6_WaterIonProduct ==
  /\ QEq(QMul(pHToConcentrationH3O(pH1), pHToConcentrationOH(pH1)), TenToMinus14)
  /\ (op = "ratio" /\ out.tag = "quantity") =>
        QEq(out.q, Pow10(RAdd(RInt(14), RNeg(RAdd(pH1, pH1)))))

C6_Witness ==
  /\ op = "ratio" /\ out.tag = "quantity"
  /\ pH1 = RInt(3)
  /\ QEq(out.q, Pow10(RInt(8)))

\* C7: the pH computed from the moles of H3O+ (of OH-) of a pH in a volume
\* V > 0, with that same volume, is that pH
C7_RoundTripMoles ==
  (op \in {"pHFromMolesH3O", "pHFromMolesOH"} /\ usedV = V1 /\ V1 > 0) =>
     (out.tag = "pH" /\ REq(out.pH, pH1))

C7_Witness ==
  /\ op = "pHFromMolesOH" /\ usedV = V1 /\ V1 = MaxVolTenths
  /\ pH1 = [k |-> 9, q |-> QInt(3)]
  /\ out.tag = "pH"

\* C8: the moles of water in a volume V are 55 * V, whatever the pH
C8_MolesH2O ==
  (op = "molesH2O") =>
     /\ QEq(out.q, QMul(QInt(55), Litres(V1)))
     /\ QEq(Litres(V1), QInt(1)) => QEq(out.q, QInt(55))

C8_Witness ==
  /\ op = "molesH2O" /\ QEq(Litres(V1), QInt(1)) /\ pH1 = RInt(4)
  /\ QEq(out.q, QInt(55))

\* C9: for V > 0 the moles of water are the concentration of water, as the
\* model defines it, times the volume
C9_MolesH2OIsConcentrationTimesVolume ==
  (op = "concentrationH2O" /\ V1 > 0) =>
     (out.tag = "quantity"
        /\ QEq(molesH2O(Litres(V1)), QMul(out.q, Litres(V1))))

\* C10: with a volume V <= 0 the pH from moles of H3O+ (of OH-) is a
\* DomainError, never a pH
C10_NonPositiveVolumeIsError ==
  (op \in {"pHFromMolesH3O", "pHFromMolesOH"} /\ usedV <= 0) => out.tag = "error"

C10_Witness ==
  /\ op = "pHFromMolesH3O" /\ usedV = 0 /\ V1 > 0
  /\ out.tag = "error"

\* C11: concentrationH2O is a DomainError for every volume <= 0, and a
\* caller with an empty beaker that substitutes the minimum volume, 0.015 L,
\* gets a concentration, 55 / 0.015
C11_ConcentrationH2ONeedsPositiveVolume ==
  /\ (op = "concentrationH2OOfVolume" /\ usedV <= 0) => out.tag = "error"
  /\ (op = "concentrationH2OOfVolume" /\ usedV > 0) => out.tag = "quantity"
  /\ (op = "concentrationH2OWithFloor" /\ V1 = 0) =>
        /\ out.tag = "quantity"
        /\ QEq(QMul(out.q, QFrac(15, 1000)), QInt(WATER_MOLARITY))

C11_Witness ==
  /\ op = "concentrationH2OOfVolume" /\ usedV = 0 /\ V1 = 0
  /\ out.tag = "error"
  /\ concentrationH2O(substituteMinimumVolume(Litres(V1))).tag = "quantity"

----------------------------------------------------------------------------
(* Solute.  A pH is held in tenths (12.4 is 124), a dilution ratio in       *)
(* hundredths, a Color as its text.                                         *)

\* bound: the constructor is also called with pH values up to this many
\* tenths outside PH_RANGE
MaxPHExcessTenths == 2

Tenths(k) == 10 * k

\* RangeWithValue.contains for PH_RANGE
PHRangeContains(pH) == Tenths(PH_RANGE_MIN) <= pH /\ pH <= Tenths(PH_RANGE_MAX)

\* default of options.colorStopRatio, 0.25
COLOR_STOP_RATIO == 25

NoColorStop == "null"
WaterColor == "Water.color"

\* the constructor's arguments for each static instance
StaticInstances ==
  [NITRIC_ACID |-> [name |-> "nitricAcid", pH |-> 10,
                    stockColor |-> "rgb(255,255,0)", colorStopColor |-> "rgb(255,224,204)"],
   SOAP |-> [name |-> "soap", pH |-> 100,
             stockColor |-> "rgb(224,141,242)", colorStopColor |-> "rgb(232,204,255)"],
   AMMONIUM |-> [name |-> "ammonium", pH |-> 110,
                 stockColor |-> "rgb(250,250,250)", colorStopColor |-> NoColorStop],
   PHOSPHORIC_ACID |-> [name |-> "phosphoricAcid", pH |-> 20,
                        stockColor |-> "rgb(250,250,250)", colorStopColor |-> NoColorStop],
   SULFURIC_ACID |-> [name |-> "sulfuricAcid", pH |-> 30,
                      stockColor |-> "rgb(250,250,250)", colorStopColor |-> NoColorStop],
   LIME |-> [name |-> "lime", pH |-> 124,
             stockColor |-> "rgb(250,250,250)", colorStopColor |-> NoColorStop],
   SALT_WATER |-> [name |-> "saltWater", pH |-> 70,
                   stockColor |-> "rgb(250,250,250)", colorStopColor |-> NoColorStop],
   POTASSIUM_SULFATE |-> [name |-> "potassiumSulfate", pH |-> 60,
                          stockColor |-> "rgb(59,240,234)", colorStopColor |-> "rgb(183,229,227)"],
   BATTERY_ACID |-> [name |-> "batteryAcid", pH |-> 10,
                     stockColor |-> "rgb(255,171,120)", colorStopColor |-> "rgb(255,224,204)"],
   WATER |-> [name |-> "Water", pH |-> Tenths(NEUTRAL_PH),
              stockColor |-> WaterColor, colorStopColor |-> NoColorStop]]

\* the pH arguments outside PH_RANGE that the constructor is tried with
OutOfRangePHs ==
  {Tenths(PH_RANGE_MIN) - d : d \in 1..MaxPHExcessTenths}
    \cup {Tenths(PH_RANGE_MAX) + d : d \in 1..MaxPHExcessTenths}

\* new Solute( name, pH, stockColor, { colorStopColor } ): the assertion on
\* the pH is evaluated only in a build with assertions enabled
NewSolute(asserting, name, pH, stockColor, colorStopColor) ==
  IF asserting /\ ~PHRangeContains(pH) THEN [NoSolute EXCEPT !.status = "failed"]
  ELSE [status |-> "constructed", name |-> name, pH |-> pH,
        stockColor |-> stockColor, dilutedColor |-> WaterColor,
        colorStopColor |-> colorStopColor, colorStopRatio |-> COLOR_STOP_RATIO]

\* Color.interpolateRGBA( color1, color2, distance ), distance = num / den
InterpolateRGBA(color1, color2, num, den) ==
  IF num = 0 THEN color1
  ELSE IF num = den THEN color2
  ELSE <<color1, color2, num, den>>

\* Solute.computeColor( ratio ), ratio in hundredths
computeColor(s, ratio) ==
  IF s.colorStopColor # NoColorStop
  THEN IF ratio > s.colorStopRatio
       THEN InterpolateRGBA(s.colorStopColor, s.stockColor,
                            ratio - s.colorStopRatio, 100 - s.colorStopRatio)
       ELSE InterpolateRGBA(s.dilutedColor, s.colorStopColor, ratio, s.colorStopRatio)
  ELSE InterpolateRGBA(s.dilutedColor, s.stockColor, ratio, 100)

Ratios == {0, 10, COLOR_STOP_RATIO, 50, 100}

ReplacementNames == {"?", "Water"}

SoluteInit ==
  /\ CoreIdle
  /\ RatioIdle
  /\ GraphIdle
  /\ ViewIdle
  /\ assertEnabled \in BOOLEAN
  /\ solute = NoSolute
  /\ soluteArg = 0
  /\ soluteOp = "init"
  /\ color = "none"

\* a static instance is constructed when the module is loaded
ConstructStatic ==
  /\ solute.status = "none"
  /\ \E i \in DOMAIN StaticInstances :
       LET a == StaticInstances[i]
       IN  /\ soluteArg' = a.pH
           /\ solute' = NewSolute(assertEnabled, a.name, a.pH, a.stockColor, a.colorStopColor)
  /\ soluteOp' = "new"
  /\ UNCHANGED <<assertEnabled, color, coreVars, ratioVars, graphVars, viewVars>>

\* the constructor is called with a pH outside PH_RANGE
ConstructOutOfRange ==
  /\ solute.status = "none"
  /\ \E pH \in OutOfRangePHs :
       /\ soluteArg' = pH
       /\ solute' = NewSolute(assertEnabled, "custom", pH, "rgb(250,250,250)", NoColorStop)
  /\ soluteOp' = "new"
  /\ UNCHANGED <<assertEnabled, color, coreVars, ratioVars, graphVars, viewVars>>

\* solute.computeColor( ratio )
ComputeColor ==
  /\ solute.status = "constructed"
  /\ \E ratio \in Ratios : color' = computeColor(solute, ratio)
  /\ soluteOp' = "computeColor"
  /\ UNCHANGED <<assertEnabled, solute, soluteArg, coreVars, ratioVars, graphVars, viewVars>>

\* SoluteIO.toStateObject( solute ) reads the name and the pH
ToStateObject ==
  /\ solute.status = "constructed"
  /\ soluteOp' = "toStateObject"
  /\ UNCHANGED <<assertEnabled, solute, soluteArg, color, coreVars, ratioVars, graphVars, viewVars>>

\* a PhET-iO client sets nameProperty
SetName ==
  /\ solute.status = "constructed"
  /\ \E n \in ReplacementNames : solute' = [solute EXCEPT !.name = n]
  /\ soluteOp' = "setName"
  /\ UNCHANGED <<assertEnabled, soluteArg, color, coreVars, ratioVars, graphVars, viewVars>>

SoluteNext ==
  \/ ConstructStatic
  \/ ConstructOutOfRange
  \/ ComputeColor
  \/ ToStateObject
  \/ SetName

SoluteSpec == SoluteInit /\ [][SoluteNext]_vars

\* C12: a pH outside [-1, 15] is rejected: constructing a Solute with such a
\* pH fails and no solute with that pH exists
C12_OutOfRangePHIsRejected ==
  (soluteOp = "new" /\ ~PHRangeContains(soluteArg)) => solute.status = "failed"

\* C14: once a Solute is constructed, no operation changes its name, pH,
\* stock color, diluted color or color stop
C14_SolutesAreImmutable ==
  [][solute.status = "constructed" => solute' = solute]_vars

----------------------------------------------------------------------------
(* RatioNode: the number of molecules for a pH.  A pH is held in            *)
(* thousandths in the solution and, once rounded to                         *)
(* PH_METER_DECIMAL_PLACES, in hundredths in the node.  A concentration     *)
(* 10^(e/100) is held as its exponent e, in hundredths.                     *)

TOTAL_MOLECULES_AT_PH_7 == 100
MAX_MAJORITY_MOLECULES == 3000
MIN_MINORITY_MOLECULES == 5
LOG_PH_RANGE_MIN == 6
LOG_PH_RANGE_MAX == 8
PH_METER_DECIMAL_PLACES == 2

Hundredths(k) == 100 * k

\* the decimal d1.d2d3... of the digits <<d1, d2, d3, ...>>
PDecimal(ds) == PNorm([e \in {1 - i : i \in 1..Len(ds)} |-> ds[1 - e]])

\* a >= 0 cut after the given number of decimal places
PTruncate(a, places) == [e \in {d \in DOMAIN a : d >= 0 - places} |-> a[e]]

PLe(a, b) == PSign(PSub(a, b)) <= 0

RECURSIVE PPow(_, _)
PPow(a, n) == IF n = 0 THEN PInt(1) ELSE PMul(a, PPow(a, n - 1))

RECURSIVE TenTo(_)
TenTo(n) == IF n = 0 THEN 1 ELSE 10 * TenTo(n - 1)

RECURSIVE PValue(_, _)
\* the integer that the digits of a at the exponents S >= 0 denote
PValue(a, S) ==
  IF S = {} THEN 0
  ELSE LET e == CHOOSE x \in S : TRUE
       IN  a[e] * TenTo(e) + PValue(a, S \ {e})

\* the digits of Math.pow( 10, 1/4 ), Math.pow( 10, 1/20 ) and
\* Math.pow( 10, 1/100 ), cut after 12 decimal places
Root4Digits == <<1, 7, 7, 8, 2, 7, 9, 4, 1, 0, 0, 3, 8>>
Root20Digits == <<1, 1, 2, 2, 0, 1, 8, 4, 5, 4, 3, 0, 1>>
Root100Digits == <<1, 0, 2, 3, 2, 9, 2, 9, 9, 2, 2, 8, 0>>

RootPlaces == Len(Root100Digits) - 1

\* each cut decimal is a lower bound of its root, and one unit more in the
\* last place an upper bound
Root4 == PDecimal(Root4Digits)
Root20 == PDecimal(Root20Digits)
Root100 == PDecimal(Root100Digits)

Ulp == PShift(PInt(1), 0 - RootPlaces)

Above(a) == PAdd(a, Ulp)

\* the three decimals do bound the roots of ten
RootsAreBounds ==
  /\ PLe(PPow(Root4, 4), PInt(10)) /\ PLe(PInt(10), PPow(Above(Root4), 4))
  /\ PLe(PPow(Root20, 5), Root4) /\ PLe(Above(Root4), PPow(Above(Root20), 5))
  /\ PLe(PPow(Root100, 5), Root20) /\ PLe(Above(Root20), PPow(Above(Root100), 5))

RECURSIVE PowersBelow(_, _, _)
\* lower bounds of a^0 .. a^n, each cut after RootPlaces places
PowersBelow(a, n, s) ==
  IF Len(s) > n THEN s
  ELSE PowersBelow(a, n, Append(s, PTruncate(PMul(s[Len(s)], a), RootPlaces)))

RECURSIVE PowersAbove(_, _, _)
\* upper bounds of a^0 .. a^n
PowersAbove(a, n, s) ==
  IF Len(s) > n THEN s
  ELSE PowersAbove(a, n, Append(s, Above(PTruncate(PMul(s[Len(s)], a), RootPlaces))))

TenToBelow == PowersBelow(Root100, 100, <<PInt(1)>>)
TenToAbove == PowersAbove(Above(Root100), 100, <<PInt(1)>>)

\* a bound of 10^(x/100) for x in -100 .. 100
TenToTheHundredths(powers, x) ==
  IF x >= 0 THEN powers[x + 1] ELSE PShift(powers[x + 101], -1)

\* Utils.roundSymmetric of a decimal a >= 0
PRound(a) ==
  LET r == PTruncate(PAdd(a, PShift(PInt(5), -1)), 0)
  IN  PValue(r, DOMAIN r)

\* small fractions n/d of integers, d > 0
FInt(n) == [n |-> n, d |-> 1]
FFrac(n, d) == [n |-> n, d |-> d]
FAdd(a, b) == [n |-> a.n * b.d + b.n * a.d, d |-> a.d * b.d]
FSub(a, b) == [n |-> a.n * b.d - b.n * a.d, d |-> a.d * b.d]
FMul(a, b) == [n |-> a.n * b.n, d |-> a.d * b.d]
\* b > 0
FDiv(a, b) == [n |-> a.n * b.d, d |-> a.d * b.n]
FMax_Second(a, b) == b

\* Math.max
FMax(a, b) == IF a.n * b.d >= b.n * a.d THEN a ELSE b

IntMax(a, b) == IF a >= b THEN a ELSE b

\* Utils.roundSymmetric: to the nearest integer, halves away from zero
roundSymmetric(a) ==
  IF a.n >= 0 THEN (2 * a.n + a.d) \div (2 * a.d)
  ELSE 0 - ((2 * (0 - a.n) + a.d) \div (2 * a.d))

\* Utils.toFixedNumber( value, decimalPlaces ) of a value in thousandths:
\* the result in units of 10^-decimalPlaces
toFixedNumber(t, decimalPlaces) == roundSymmetric(FFrac(t * TenTo(decimalPlaces), 1000))

LogPHRangeContains(h) ==
  Hundredths(LOG_PH_RANGE_MIN) <= h /\ h <= Hundredths(LOG_PH_RANGE_MAX)

\* exponent of PHModel.pHToConcentrationH3O( pH ) = 10^-pH
H3OExponent(h) == 0 - h
\* exponent of PHModel.pHToConcentrationOH( pH ) = 10^(pH-14)
OHExponent(h) == h - Hundredths(14)

\* Utils.roundSymmetric( 10^(x/100) * ( TOTAL_MOLECULES_AT_PH_7 / 2 ) ) for
\* x = -100, -99, ..., 100
MoleculesTable ==
  <<
    5, 5, 5, 5, 5, 6, 6, 6, 6, 6, 6, 6, 7, 7, 7,
    7, 7, 7, 8, 8, 8, 8, 8, 8, 9, 9, 9, 9, 10, 10,
    10, 10, 10, 11, 11, 11, 11, 12, 12, 12, 13, 13, 13, 13, 14,
    14, 14, 15, 15, 15, 16, 16, 17, 17, 17, 18, 18, 19, 19, 19,
    20, 20, 21, 21, 22, 22, 23, 23, 24, 24, 25, 26, 26, 27, 27,
    28, 29, 29, 30, 31, 32, 32, 33, 34, 35, 35, 36, 37, 38, 39,
    40, 41, 42, 43, 44, 45, 46, 47, 48, 49, 50, 51, 52, 54, 55,
    56, 57, 59, 60, 62, 63, 64, 66, 67, 69, 71, 72, 74, 76, 77,
    79, 81, 83, 85, 87, 89, 91, 93, 95, 97, 100, 102, 104, 107, 109,
    112, 115, 117, 120, 123, 126, 129, 132, 135, 138, 141, 144, 148, 151, 155,
    158, 162, 166, 169, 173, 177, 182, 186, 190, 195, 199, 204, 208, 213, 218,
    223, 229, 234, 239, 245, 251, 256, 262, 269, 275, 281, 288, 294, 301, 308,
    315, 323, 330, 338, 346, 354, 362, 371, 379, 388, 397, 406, 416, 426, 435,
    446, 456, 467, 477, 489, 500>>

\* every entry of the table is the rounded value of both bounds of its power
MoleculesTableIsExact ==
  /\ RootsAreBounds
  /\ \A x \in (0 - 100)..100 :
       /\ MoleculesTable[x + 101]
            = PRound(PScale(TenToTheHundredths(TenToBelow, x), TOTAL_MOLECULES_AT_PH_7 \div 2))
       /\ MoleculesTable[x + 101]
            = PRound(PScale(TenToTheHundredths(TenToAbove, x), TOTAL_MOLECULES_AT_PH_7 \div 2))

\* concentration * ( TOTAL_MOLECULES_AT_PH_7 / 2 ) / 1E-7, rounded, for a
\* concentration 10^(e/100)
MoleculesOfConcentration(e) == MoleculesTable[e + Hundredths(7) + 101]

computeNumberOfH3O(h) == MoleculesOfConcentration(H3OExponent(h))

computeNumberOfOH(h) == MoleculesOfConcentration(OHExponent(h))

\* the numbers of molecules that update() computes for a pH that is not
\* null, in hundredths
numberOfMoleculesOfPH(h) ==
  LET min == Hundredths(LOG_PH_RANGE_MIN)
      max == Hundredths(LOG_PH_RANGE_MAX)
      N == FDiv(FInt(MAX_MAJORITY_MOLECULES - computeNumberOfOH(max)),
                FInt(PH_RANGE_MAX - LOG_PH_RANGE_MAX))
      raw ==
        IF LogPHRangeContains(h)
        THEN [H3O |-> FInt(IntMax(MIN_MINORITY_MOLECULES, computeNumberOfH3O(h))),
              OH |-> FInt(IntMax(MIN_MINORITY_MOLECULES, computeNumberOfOH(h)))]
        ELSE IF h > max
        THEN LET pHDiff == FFrac(h - max, 100)
             IN  [H3O |-> FMax(FInt(MIN_MINORITY_MOLECULES),
                               FSub(FInt(computeNumberOfH3O(max)), pHDiff)),
                  OH |-> FAdd(FInt(computeNumberOfOH(max)), FMul(pHDiff, N))]
        ELSE LET pHDiff == FFrac(min - h, 100)
             IN  [H3O |-> FAdd(FInt(computeNumberOfH3O(min)), FMul(pHDiff, N)),
                  OH |-> FMax(FInt(MIN_MINORITY_MOLECULES),
                              FSub(FInt(computeNumberOfOH(min)), pHDiff))]
  IN  [H3O |-> roundSymmetric(raw.H3O), OH |-> roundSymmetric(raw.OH)]

numberOfMolecules_MinimumForNull(pH) ==
  IF pH = Null THEN [H3O |-> MIN_MINORITY_MOLECULES, OH |-> MIN_MINORITY_MOLECULES]
  ELSE numberOfMoleculesOfPH(pH[1])

\* the numbers of molecules that update() computes for a pH: none for null
numberOfMolecules(pH) ==
  IF pH = Null THEN [H3O |-> 0, OH |-> 0]
  ELSE numberOfMoleculesOfPH(pH[1])

\* bound: the outcomes of the random choice of the molecule coordinates
MaxSeeds == 2

\* the coordinate arrays as allocated, before any coordinate is generated
NoCoordinates == 0

Seeds == 1..MaxSeeds

\* RatioNode as its constructor leaves it before the links are made:
\* this.pH = null, and a MoleculesCanvas with no molecules
\* paintInvalid: invalidatePaint() was called since the last paintCanvas;
\* drawn: what the last paintCanvas drew
NewRatioNode(visible) ==
  [visible |-> visible, pH |-> Null,
   numberOfH3OMolecules |-> 0, numberOfOHMolecules |-> 0,
   coordinates |-> NoCoordinates,
   paintInvalid |-> FALSE, drawn |-> Null]

\* MoleculesCanvas.setNumberOfMolecules: new random coordinates (seed) when
\* either number differs
setNumberOfMolecules_Always(node, numberOfH3O, numberOfOH, seed) ==
  [node EXCEPT !.numberOfH3OMolecules = numberOfH3O,
               !.numberOfOHMolecules = numberOfOH,
               !.coordinates = seed,
               !.paintInvalid = TRUE]

setNumberOfMolecules(node, numberOfH3O, numberOfOH, seed) ==
  IF numberOfH3O # node.numberOfH3OMolecules \/ numberOfOH # node.numberOfOHMolecules
  THEN [node EXCEPT !.numberOfH3OMolecules = numberOfH3O,
                    !.numberOfOHMolecules = numberOfOH,
                    !.coordinates = seed,
                    !.paintInvalid = TRUE]
  ELSE node

\* MoleculesCanvas.paintCanvas: draws the significant entries of the
\* coordinate arrays and writes no field of the canvas
paintCanvas(node) ==
  [node EXCEPT !.paintInvalid = FALSE,
               !.drawn = <<[H3O |-> node.numberOfH3OMolecules,
                            OH |-> node.numberOfOHMolecules,
                            coordinates |-> node.coordinates]>>]

update_Always(node, p, seed) ==
  LET pH == IF p # Null THEN <<toFixedNumber(p[1], PH_METER_DECIMAL_PLACES)>> ELSE p
      n == numberOfMolecules(pH)
  IN  IF node.pH # pH
      THEN setNumberOfMolecules([node EXCEPT !.pH = pH], n.H3O, n.OH, seed)
      ELSE node

\* RatioNode.update, p the value of solution.pHProperty (in thousandths)
update(node, p, seed) ==
  IF ~node.visible THEN node
  ELSE
    LET pH == IF p # Null THEN <<toFixedNumber(p[1], PH_METER_DECIMAL_PLACES)>> ELSE p
        n == numberOfMolecules(pH)
    IN  IF node.pH # pH
        THEN setNumberOfMolecules([node EXCEPT !.pH = pH], n.H3O, n.OH, seed)
        ELSE node

\* the derivation of ratioProperty: [H3O+] / [OH-] of two powers of ten,
\* as the exponent of the quotient (in thousandths); null for a null pH
ratioDerivation(p) ==
  IF p = Null THEN Null
  ELSE <<(0 - p[1]) - (p[1] - 1000 * 14)>>

\* the listener of totalVolumeProperty: no clip area for an empty beaker
clipAreaOf(volume) == IF volume = 0 THEN "null" ELSE "rectangle"

\* the solution's pH: null exactly when the beaker is empty
pHOfSolution(t, volume) == IF volume = 0 THEN Null ELSE <<t>>

\* pH values of the solution, in thousandths
RatioPHs ==
  {1000 * PH_RANGE_MIN, -996, 0, 3000, 5994, 5996, 6000, 6004, 6480, 7000,
   7004, 7996, 8000, 8004, 8006, 11500, 14996, 1000 * PH_RANGE_MAX}

RatioVolumes == 0..MaxVolTenths

\* the state once the constructor has made its links: each link calls its
\* listener at once
RatioConstructed ==
  \E t \in RatioPHs, v \in RatioVolumes, visible \in BOOLEAN, seed \in Seeds :
    /\ totalVolumeProperty = v
    /\ pHProperty = pHOfSolution(t, v)
    /\ ratioNode = update(update(NewRatioNode(visible), pHProperty, seed), pHProperty, seed)
    /\ ratioValue = ratioDerivation(pHProperty)
    /\ clipArea = clipAreaOf(v)
    /\ ratioOp = "new"

RatioInit ==
  /\ CoreIdle
  /\ SoluteIdle
  /\ GraphIdle
  /\ ViewIdle
  /\ RatioConstructed

\* liquid is added to or drained from the beaker: the listeners of
\* pHProperty run if its value changes
ChangeSolution ==
  /\ \E t \in RatioPHs, v \in RatioVolumes, seed \in Seeds :
       /\ totalVolumeProperty' = v
       /\ pHProperty' = pHOfSolution(t, v)
       /\ ratioNode' = IF pHProperty' # pHProperty
                       THEN update(ratioNode, pHProperty', seed)
                       ELSE ratioNode
       /\ ratioValue' = ratioDerivation(pHProperty')
       /\ clipArea' = clipAreaOf(v)
  /\ ratioOp' = "changeSolution"
  /\ UNCHANGED <<coreVars, soluteVars, graphVars, viewVars>>

SetVisible_NoUpdate ==
  /\ ratioNode' = [ratioNode EXCEPT !.visible = ~ratioNode.visible]
  /\ ratioOp' = "setVisible"
  /\ UNCHANGED <<totalVolumeProperty, pHProperty, ratioValue, clipArea>>
  /\ UNCHANGED <<coreVars, soluteVars, graphVars, viewVars>>

\* the 'H3O+/OH- ratio' check box is toggled: the node updates when it
\* becomes visible
SetVisible ==
  /\ \E seed \in Seeds :
       LET node == [ratioNode EXCEPT !.visible = ~ratioNode.visible]
       IN  ratioNode' = IF node.visible THEN update(node, pHProperty, seed) ELSE node
  /\ ratioOp' = "setVisible"
  /\ UNCHANGED <<totalVolumeProperty, pHProperty, ratioValue, clipArea>>
  /\ UNCHANGED <<coreVars, soluteVars, graphVars, viewVars>>

RatioNext ==
  \/ ChangeSolution
  \/ SetVisible

RatioSpec == RatioInit /\ [][RatioNext]_vars

\* a call of the public method setNumberOfMolecules, with the current
\* numbers or others
SetNumberOfMolecules ==
  /\ \E a \in {0, MIN_MINORITY_MOLECULES, ratioNode.numberOfH3OMolecules},
        b \in {0, MAX_MAJORITY_MOLECULES, ratioNode.numberOfOHMolecules},
        seed \in Seeds :
       ratioNode' = setNumberOfMolecules(ratioNode, a, b, seed)
  /\ ratioOp' = "setNumberOfMolecules"
  /\ UNCHANGED <<totalVolumeProperty, pHProperty, ratioValue, clipArea>>
  /\ UNCHANGED <<coreVars, soluteVars, graphVars, viewVars>>

\* a repaint of the visible canvas, whatever caused it
PaintCanvas ==
  /\ ratioNode.visible
  /\ ratioNode' = paintCanvas(ratioNode)
  /\ ratioOp' = "paintCanvas"
  /\ UNCHANGED <<totalVolumeProperty, pHProperty, ratioValue, clipArea>>
  /\ UNCHANGED <<coreVars, soluteVars, graphVars, viewVars>>

\* a RatioNode constructed for a neutral solution or an empty beaker
CanvasInit ==
  /\ CoreIdle
  /\ SoluteIdle
  /\ GraphIdle
  /\ ViewIdle
  /\ \E v \in {0, 1}, visible \in BOOLEAN, seed \in Seeds :
       /\ totalVolumeProperty = v
       /\ pHProperty = pHOfSolution(1000 * NEUTRAL_PH, v)
       /\ clipArea = clipAreaOf(v)
       /\ ratioNode = update(NewRatioNode(visible), pHProperty, seed)
  /\ ratioValue = ratioDerivation(pHProperty)
  /\ ratioOp = "new"

CanvasNext ==
  \/ SetVisible
  \/ SetNumberOfMolecules
  \/ PaintCanvas

CanvasSpec == CanvasInit /\ [][CanvasNext]_vars

\* the solution's pH as update() rounds it
RoundedPH ==
  IF pHProperty = Null THEN Null
  ELSE <<toFixedNumber(pHProperty[1], PH_METER_DECIMAL_PLACES)>>

\* the numbers of molecules that the node displays: none while invisible,
\* else those held by its canvas
DisplayedMolecules ==
  IF ratioNode.visible
  THEN [H3O |-> ratioNode.numberOfH3OMolecules, OH |-> ratioNode.numberOfOHMolecules]
  ELSE [H3O |-> 0, OH |-> 0]

\* all pH values of PH_RANGE with two decimal places, in thousandths
AllPHs == {10 * h : h \in Hundredths(PH_RANGE_MIN)..Hundredths(PH_RANGE_MAX)}

\* a RatioNode constructed invisible, for a solution of any pH or none
RatioCountInit ==
  /\ CoreIdle
  /\ SoluteIdle
  /\ GraphIdle
  /\ ViewIdle
  /\ \E t \in AllPHs, v \in {0, 1} :
       /\ totalVolumeProperty = v
       /\ pHProperty = pHOfSolution(t, v)
       /\ clipArea = clipAreaOf(v)
  /\ ratioNode = update(NewRatioNode(FALSE), pHProperty, NoCoordinates)
  /\ ratioValue = ratioDerivation(pHProperty)
  /\ ratioOp = "new"

RatioCountSpec == RatioCountInit /\ [][SetVisible]_vars

\* C13: the pH is null exactly when the total volume is 0; with volume 0
\* RatioNode displays no H3O+ and no OH- molecule and the H3O+/OH- ratio is
\* null; with volume > 0 the pH is a number
C13_PHDefinedIffVolumePositive ==
  /\ totalVolumeProperty = 0 =>
       /\ pHProperty = Null
       /\ ratioValue = Null
       /\ DisplayedMolecules = [H3O |-> 0, OH |-> 0]
       /\ ratioNode.visible => ratioNode.pH = Null
  /\ totalVolumeProperty > 0 => (pHProperty # Null /\ ratioValue # Null)

C13_Witness ==
  /\ ratioOp = "changeSolution"
  /\ totalVolumeProperty = 0 /\ pHProperty = Null
  /\ ratioNode.visible /\ ratioNode.coordinates # NoCoordinates
  /\ ratioNode.numberOfH3OMolecules = 0 /\ ratioNode.numberOfOHMolecules = 0

\* C18: whenever RatioNode is visible its cached pH is the solution's pH
\* rounded to 2 decimal places (or null) and its canvas holds the numbers of
\* molecules computed from that pH
C18_NeverStaleWhileVisible ==
  ratioNode.visible =>
     /\ ratioNode.pH = RoundedPH
     /\ ratioNode.numberOfH3OMolecules = numberOfMolecules(RoundedPH).H3O
     /\ ratioNode.numberOfOHMolecules = numberOfMolecules(RoundedPH).OH

C18_Witness ==
  /\ ratioOp = "setVisible"
  /\ ratioNode.visible /\ pHProperty = <<6480>> /\ ratioNode.pH = <<648>>
  /\ ratioNode.numberOfH3OMolecules = 166 /\ ratioNode.numberOfOHMolecules = 15

\* C19: a step that RatioNode begins and ends invisible leaves its cached
\* pH, its numbers of molecules and its coordinates as they were
C19_InvisibleUpdateChangesNothing ==
  [][(~ratioNode.visible /\ ~ratioNode'.visible) => ratioNode' = ratioNode]_vars

C19_Witness ==
  /\ ratioOp = "changeSolution"
  /\ ~ratioNode.visible
  /\ ratioNode.coordinates # NoCoordinates
  /\ ratioNode.pH # RoundedPH

\* C20: for every pH of [-1, 15] with 2 decimal places both numbers of
\* molecules are between MIN_MINORITY_MOLECULES (5) and
\* MAX_MAJORITY_MOLECULES (3000), the length of the coordinate arrays; 3000
\* is reached at the ends of the range only; for a null pH both are 0
C20_MoleculeCountsInRange ==
  ratioNode.visible =>
     LET a == ratioNode.numberOfH3OMolecules
         b == ratioNode.numberOfOHMolecules
     IN  IF pHProperty = Null THEN a = 0 /\ b = 0
         ELSE /\ MIN_MINORITY_MOLECULES <= a /\ a <= MAX_MAJORITY_MOLECULES
              /\ MIN_MINORITY_MOLECULES <= b /\ b <= MAX_MAJORITY_MOLECULES
              /\ a = MAX_MAJORITY_MOLECULES <=> pHProperty = <<1000 * PH_RANGE_MIN>>
              /\ b = MAX_MAJORITY_MOLECULES <=> pHProperty = <<1000 * PH_RANGE_MAX>>

C20_Witness ==
  /\ ratioOp = "setVisible"
  /\ ratioNode.visible /\ pHProperty = <<1000 * PH_RANGE_MIN>>
  /\ ratioNode.numberOfH3OMolecules = MAX_MAJORITY_MOLECULES
  /\ ratioNode.numberOfOHMolecules = MIN_MINORITY_MOLECULES
  /\ MoleculesTableIsExact

\* ---------------------------------------------------------------------
\* GraphNode: expand/collapse, units switch, scale switch, zoom buttons
\* ---------------------------------------------------------------------

LINEAR_EXPONENT_RANGE_MIN == 0 - 14
LINEAR_EXPONENT_RANGE_MAX == 1

GraphUnits == {"MOLES_PER_LITER", "MOLES"}
GraphScale == {"LOGARITHMIC", "LINEAR"}
NoProperty == "null"

ExponentRangeContains(exponent) ==
  LINEAR_EXPONENT_RANGE_MIN <= exponent /\ exponent <= LINEAR_EXPONENT_RANGE_MAX

\* expandedProperty.link
expandedLink(g) == [g EXCEPT !.parentVisible = g.expanded]

scaleLink_LogarithmicAlways(g) ==
  [g EXCEPT !.logarithmicVisible = TRUE,
            !.linearVisible = (g.graphScale = "LINEAR"),
            !.zoomButtonsVisible = (g.graphScale = "LINEAR")]

\* graphScaleProperty.link
scaleLink(g) ==
  [g EXCEPT !.logarithmicVisible = (g.graphScale = "LOGARITHMIC"),
            !.linearVisible = (g.graphScale = "LINEAR"),
            !.zoomButtonsVisible = (g.graphScale = "LINEAR")]

exponentLink_MinimumInclusive(g) ==
  LET exponent == g.exponent[1]
  IN  [g EXCEPT !.failed = g.failed \/ ~ExponentRangeContains(exponent),
                !.zoomInEnabled = (exponent >= LINEAR_EXPONENT_RANGE_MIN),
                !.zoomOutEnabled = (exponent < LINEAR_EXPONENT_RANGE_MAX)]

\* exponentProperty.link: the assertion, then the buttons' enabled flags
exponentLink(g) ==
  LET exponent == g.exponent[1]
  IN  [g EXCEPT !.failed = g.failed \/ ~ExponentRangeContains(exponent),
                !.zoomInEnabled = (exponent > LINEAR_EXPONENT_RANGE_MIN),
                !.zoomOutEnabled = (exponent < LINEAR_EXPONENT_RANGE_MAX)]

\* the constructor: Properties at their initial values, then every link
\* called once; without the linear feature there is no scale Property, no
\* linear graph and no zoom button
NewGraphNode(hasLinearFeature, units, graphScale) ==
  LET g0 == [hasLinearFeature |-> hasLinearFeature,
             units0 |-> units, scale0 |-> graphScale,
             expanded |-> TRUE, graphUnits |-> units,
             graphScale |-> NoProperty, exponent |-> Null,
             parentVisible |-> TRUE, logarithmicVisible |-> TRUE,
             linearVisible |-> FALSE, zoomButtonsVisible |-> FALSE,
             zoomInEnabled |-> FALSE, zoomOutEnabled |-> FALSE,
             failed |-> FALSE]
      g1 == expandedLink(g0)
  IN  IF hasLinearFeature
      THEN exponentLink(scaleLink(
             [g1 EXCEPT !.graphScale = graphScale,
                        !.exponent = <<LINEAR_EXPONENT_RANGE_MAX>>]))
      ELSE g1

Constructed(g) == NewGraphNode(g.hasLinearFeature, g.units0, g.scale0)

\* linearGraphNode.reset(): the exponent back to its initial value
linearGraphNodeReset(g) ==
  exponentLink([g EXCEPT !.exponent = <<LINEAR_EXPONENT_RANGE_MAX>>])

resetGraphNode_KeepExpanded(g) ==
  LET g2 == [g EXCEPT !.graphUnits = g.units0]
      g3 == IF g2.graphScale # NoProperty
            THEN scaleLink([g2 EXCEPT !.graphScale = g.scale0]) ELSE g2
  IN  IF g3.exponent # Null THEN linearGraphNodeReset(g3) ELSE g3

\* resetGraphNode: each Property back to its initial value, the two of the
\* linear feature only if they exist
resetGraphNode(g) ==
  LET g1 == expandedLink([g EXCEPT !.expanded = TRUE])
      g2 == [g1 EXCEPT !.graphUnits = g.units0]
      g3 == IF g2.graphScale # NoProperty
            THEN scaleLink([g2 EXCEPT !.graphScale = g.scale0]) ELSE g2
  IN  IF g3.exponent # Null THEN linearGraphNodeReset(g3) ELSE g3

GraphInit ==
  /\ CoreIdle /\ SoluteIdle /\ RatioIdle /\ ViewIdle
  /\ \E h \in BOOLEAN, u \in GraphUnits, s \in GraphScale :
       graph = NewGraphNode(h, u, s)
  /\ graphOp = "new"
  /\ graphBefore = Null

GraphStep(name, g) ==
  /\ graph' = g
  /\ graphOp' = name
  /\ graphBefore' = graph
  /\ UNCHANGED <<coreVars, soluteVars, ratioVars, viewVars>>

\* the expand/collapse button
ToggleExpanded ==
  GraphStep("toggleExpanded", expandedLink([graph EXCEPT !.expanded = ~graph.expanded]))

\* the units switch
SetUnits ==
  \E u \in GraphUnits \ {graph.graphUnits} :
    GraphStep("setUnits", [graph EXCEPT !.graphUnits = u])

\* the scale switch, which exists with the linear feature only
SetScale ==
  /\ graph.hasLinearFeature
  /\ \E s \in GraphScale \ {graph.graphScale} :
       GraphStep("setScale", scaleLink([graph EXCEPT !.graphScale = s]))

\* zoomInButton listener, fired by an enabled button only
ZoomIn ==
  /\ graph.hasLinearFeature /\ graph.zoomInEnabled /\ ~graph.failed
  /\ GraphStep("zoomIn", exponentLink([graph EXCEPT !.exponent = <<graph.exponent[1] - 1>>]))

\* zoomOutButton listener, fired by an enabled button only
ZoomOut ==
  /\ graph.hasLinearFeature /\ graph.zoomOutEnabled /\ ~graph.failed
  /\ GraphStep("zoomOut", exponentLink([graph EXCEPT !.exponent = <<graph.exponent[1] + 1>>]))

\* GraphNode.reset()
ResetGraph == GraphStep("reset", resetGraphNode(graph))

GraphNext ==
  \/ ToggleExpanded
  \/ SetUnits
  \/ SetScale
  \/ ZoomIn
  \/ ZoomOut
  \/ ResetGraph

GraphSpec == GraphInit /\ [][GraphNext]_vars

\* C15: with the linear feature the zoom exponent stays inside
\* LINEAR_EXPONENT_RANGE [-14, 1] under any sequence of presses of enabled
\* zoom buttons, the assertion of the exponent link never fails, zoom-in is
\* enabled iff exponent > min and zoom-out iff exponent < max, and a new
\* graph has the exponent at the maximum with zoom-out disabled
C15_ExponentStaysInRange ==
  graph.hasLinearFeature =>
     /\ ExponentRangeContains(graph.exponent[1])
     /\ ~graph.failed
     /\ graph.zoomInEnabled <=> graph.exponent[1] > LINEAR_EXPONENT_RANGE_MIN
     /\ graph.zoomOutEnabled <=> graph.exponent[1] < LINEAR_EXPONENT_RANGE_MAX
     /\ graphOp = "new" =>
          (graph.exponent = <<LINEAR_EXPONENT_RANGE_MAX>> /\ ~graph.zoomOutEnabled)

C15_Witness ==
  /\ graphOp = "zoomIn"
  /\ graph.hasLinearFeature
  /\ graph.exponent = <<LINEAR_EXPONENT_RANGE_MIN>>
  /\ ~graph.zoomInEnabled /\ graph.zoomOutEnabled

\* C16: with the linear feature, after any sequence of scale changes
\* exactly one of the logarithmic and the linear graph is visible, the
\* logarithmic one iff graphScale = LOGARITHMIC and the linear one iff
\* graphScale = LINEAR, and the zoom buttons are visible iff the linear
\* graph is
C16_ExactlyOneGraphVisible ==
  graph.hasLinearFeature =>
     /\ graph.logarithmicVisible # graph.linearVisible
     /\ graph.logarithmicVisible <=> graph.graphScale = "LOGARITHMIC"
     /\ graph.linearVisible <=> graph.graphScale = "LINEAR"
     /\ graph.zoomButtonsVisible <=> graph.linearVisible

C16_Witness ==
  /\ graphOp = "setScale"
  /\ graph.hasLinearFeature /\ graph.scale0 = "LOGARITHMIC"
  /\ graph.graphScale = "LINEAR"
  /\ graph.linearVisible /\ graph.zoomButtonsVisible /\ ~graph.logarithmicVisible

C21_PositionsKeptWhilePHConstant ==
  [][/\ (/\ ratioNode'.numberOfH3OMolecules = ratioNode.numberOfH3OMolecules
         /\ ratioNode'.numberOfOHMolecules = ratioNode.numberOfOHMolecules)
        => /\ ratioNode'.coordinates = ratioNode.coordinates
           /\ ratioNode'.paintInvalid => ratioNode.paintInvalid
     /\ ratioOp' = "paintCanvas"
        => /\ ratioNode'.coordinates = ratioNode.coordinates
           /\ ratioNode'.numberOfH3OMolecules = ratioNode.numberOfH3OMolecules
           /\ ratioNode'.numberOfOHMolecules = ratioNode.numberOfOHMolecules
           /\ ratioNode'.drawn[1].coordinates = ratioNode.coordinates
           /\ (ratioNode.drawn # Null /\ ~ratioNode.paintInvalid)
                => ratioNode'.drawn = ratioNode.drawn
    ]_vars

C21_Witness ==
  /\ ratioOp = "setNumberOfMolecules"
  /\ ratioNode.visible /\ ~ratioNode.paintInvalid
  /\ ratioNode.numberOfH3OMolecules = MIN_MINORITY_MOLECULES
  /\ ratioNode.numberOfOHMolecules = MAX_MAJORITY_MOLECULES
  /\ ratioNode.drawn # Null
  /\ ratioNode.drawn[1].coordinates = ratioNode.coordinates

\* ---------------------------------------------------------------------
\* ScientificNotationNode.toScientificNotation
\* ---------------------------------------------------------------------
\* Numbers are fractions [n, d]; a decimal string is the number it denotes.

Abs(i) == IF i >= 0 THEN i ELSE 0 - i

\* Math.pow( 10, e )
PowerOfTen(e) == IF e >= 0 THEN FInt(TenTo(e)) ELSE FFrac(1, TenTo(0 - e))

\* Util.toFixed: nearest-neighbour rounding to decimalPlaces places
toFixed(a, decimalPlaces) ==
  FFrac(roundSymmetric(FMul(a, FInt(TenTo(decimalPlaces)))), TenTo(decimalPlaces))

RECURSIVE NumberOfDigits(_)
NumberOfDigits(n) == IF n < 10 THEN 1 ELSE 1 + NumberOfDigits(n \div 10)

\* Number.prototype.toExponential for a decimal number a # 0 (a.d a power
\* of ten): the exponent e with 10^e <= |a| < 10^(e+1) and the mantissa
\* rounded to fractionDigits places, carried to the next exponent if it
\* rounds up to 10
toExponential(a, fractionDigits) ==
  LET e == NumberOfDigits(Abs(a.n)) - NumberOfDigits(a.d)
      m == toFixed(FMul(a, PowerOfTen(0 - e)), fractionDigits)
  IN  IF Abs(m.n) = 10 * m.d
      THEN [mantissa |-> FFrac(m.n \div 10, m.d), exponent |-> e + 1]
      ELSE [mantissa |-> m, exponent |-> e]

\* toScientificNotation( value, { exponent, mantissaDecimalPlaces } );
\* exponent is Null or <<E>>
toScientificNotation(value, exponent, mantissaDecimalPlaces) ==
  IF value.n = 0
  THEN [mantissa |-> FInt(0), exponent |-> 1]
  ELSE IF exponent # Null /\ exponent = <<0>>
  THEN [mantissa |-> toFixed(value, mantissaDecimalPlaces), exponent |-> 0]
  ELSE
    LET tokens == toExponential(value, mantissaDecimalPlaces + 1)
        mantissaString == toFixed(tokens.mantissa, mantissaDecimalPlaces)
    IN  IF exponent # Null
        THEN [mantissa |-> toFixed(FMul(mantissaString,
                                        PowerOfTen(tokens.exponent - exponent[1])),
                                   IntMax(0, mantissaDecimalPlaces)),
              exponent |-> exponent[1]]
        ELSE [mantissa |-> mantissaString, exponent |-> tokens.exponent]

\* values: 0 and some numbers of 1 to 4 digits, of either sign, times a
\* power of ten
NotationValues ==
  {FInt(0)} \cup
  {FMul(FInt(sign * n), PowerOfTen(k)) :
     sign \in {-1, 1}, n \in {5, 96, 146, 1449, 1460, 3970}, k \in -1..1}

NotationOptions ==
  [exponent : {Null} \cup {<<e>> : e \in 0..3}, mantissaDecimalPlaces : 0..2]

\* ScientificNotationNode.setValue, as far as toScientificNotation
setValue(value, options) ==
  toScientificNotation(value, options.exponent, options.mantissaDecimalPlaces)

\* the constructor sets the value
NotationInit ==
  /\ CoreIdle /\ SoluteIdle /\ RatioIdle /\ GraphIdle
  /\ \E value \in NotationValues, options \in NotationOptions :
       /\ viewArg = [value |-> value, options |-> options]
       /\ viewOut = setValue(value, options)
  /\ viewOp = "new"

SetValue ==
  /\ \E value \in NotationValues :
       /\ viewArg' = [viewArg EXCEPT !.value = value]
       /\ viewOut' = setValue(value, viewArg.options)
  /\ viewOp' = "setValue"
  /\ UNCHANGED <<coreVars, soluteVars, ratioVars, graphVars>>

NotationSpec == NotationInit /\ [][SetValue]_vars

\* C22: the value equals mantissa * 10^exponent up to the rounding of the
\* mantissa to mantissaDecimalPlaces places: the mantissa is less than one
\* unit of its last place away from value / 10^exponent, for every value (0
\* and negative values included) and every requested exponent or none
C22_ValueIsMantissaTimesPowerOfTen ==
  viewOp \in {"new", "setValue"} =>
     LET places == viewArg.options.mantissaDecimalPlaces
         scaled == FMul(viewArg.value, PowerOfTen(places - viewOut.exponent))
         units == viewOut.mantissa.n * (TenTo(places) \div viewOut.mantissa.d)
     IN  Abs(scaled.n - units * scaled.d) < scaled.d

\* C23: when a specific exponent E is requested the result has exponent E,
\* for every value, 0 included
C23_RequestedExponentIsReturned ==
  (viewOp \in {"new", "setValue"} /\ viewArg.options.exponent # Null) =>
     viewOut.exponent = viewArg.options.exponent[1]

\* ---------------------------------------------------------------------
\* LogarithmicGraphNode: the places of the three indicators
\* ---------------------------------------------------------------------

LOGARITHMIC_EXPONENT_RANGE_MIN == 0 - 16
LOGARITHMIC_EXPONENT_RANGE_MAX == 2

\* valueToY. The result is the place on the scale: for 0 the place below
\* the bottom tick (y = scaleHeight - 0.5 * scaleYMargin), else the number
\* of tick spacings below the top tick, maxExponent - log10( value ), so
\* that y = scaleYMargin + ticks * maxHeight / ( maxExponent - minExponent )
valueToY(value) ==
  IF QSign(value) = 0
  THEN [belowBottomTick |-> TRUE, ticks |-> RInt(0)]
  ELSE [belowBottomTick |-> FALSE,
        ticks |-> RAdd(RInt(LOGARITHMIC_EXPONENT_RANGE_MAX), RNeg(Log10(value)))]

\* updateIndicators: the values of the solution in the units of the graph,
\* and the y of each indicator
updateIndicators(pH, V, graphUnits) ==
  LET valueH2O == IF graphUnits = "MOLES_PER_LITER"
                  THEN concentrationH2OFormula(V) ELSE molesH2O(V)
      valueH3O == IF graphUnits = "MOLES_PER_LITER"
                  THEN pHToConcentrationH3O(pH) ELSE molesH3O(pH, V)
      valueOH == IF graphUnits = "MOLES_PER_LITER"
                 THEN pHToConcentrationOH(pH) ELSE molesOH(pH, V)
  IN  [H2O |-> valueToY(valueH2O), H3O |-> valueToY(valueH3O),
       OH |-> valueToY(valueOH)]

\* volumes of the solution: none, the minimum, and some up to the maximum
IndicatorVolumes ==
  {QInt(0), MIN_SOLUTION_VOLUME} \cup {Litres(v) : v \in {1, 5, 10, MAX_VOLUME_TENTHS}}

\* the solutions and units shown: with an empty beaker only the
\* quantities are defined by the formulas
IndicatorArgs ==
  {a \in [pH : PHInputs, V : IndicatorVolumes, graphUnits : GraphUnits] :
     QSign(a.V) = 0 => a.graphUnits = "MOLES"}

\* the constructor links updateIndicators, which is called at once
IndicatorInit ==
  /\ CoreIdle /\ SoluteIdle /\ RatioIdle /\ GraphIdle
  /\ viewArg \in IndicatorArgs
  /\ viewOut = updateIndicators(viewArg.pH, viewArg.V, viewArg.graphUnits)
  /\ viewOp = "new"

\* the pH, the volume or the units change, and the listener runs
UpdateIndicators ==
  /\ \E a \in IndicatorArgs :
       /\ \/ (a.V = viewArg.V /\ a.graphUnits = viewArg.graphUnits)
          \/ (a.pH = viewArg.pH /\ a.graphUnits = viewArg.graphUnits)
          \/ (a.pH = viewArg.pH /\ a.V = viewArg.V)
       /\ a # viewArg
       /\ viewArg' = a
       /\ viewOut' = updateIndicators(a.pH, a.V, a.graphUnits)
  /\ viewOp' = "updateIndicators"
  /\ UNCHANGED <<coreVars, soluteVars, ratioVars, graphVars>>

IndicatorSpec == IndicatorInit /\ [][UpdateIndicators]_vars

\* an indicator is between the top and the bottom tick
BetweenTicks(y) ==
  /\ ~y.belowBottomTick
  /\ RLe(RInt(0), y.ticks)
  /\ RLe(y.ticks, RInt(LOGARITHMIC_EXPONENT_RANGE_MAX - LOGARITHMIC_EXPONENT_RANGE_MIN))

\* C24: for every pH of [-1, 15] and volume of [0.015, 1.2] L each of the
\* three indicators (concentration or quantity of H2O, H3O+, OH-) is
\* between the top and the bottom tick of LOGARITHMIC_EXPONENT_RANGE
\* [-16, 2]; with an empty beaker the quantities are 0 and are placed below
\* the bottom tick
C24_IndicatorsBetweenTicks ==
  viewOp \in {"new", "updateIndicators"} =>
     IF QSign(viewArg.V) = 0
     THEN \A i \in {"H2O", "H3O", "OH"} : viewOut[i].belowBottomTick
     ELSE \A i \in {"H2O", "H3O", "OH"} : BetweenTicks(viewOut[i])

\* ---------------------------------------------------------------------
\* SolutionNode: the height of the solution drawn in the beaker
\* ---------------------------------------------------------------------

\* Util.linear( 0, a2, 0, b2, a3 )
linear(a2, b2, a3) == QMul(QDiv(b2, a2), a3)

volumeListener_FloorForZero(volume, beakerVolume, beakerHeight) ==
  linear(beakerVolume, beakerHeight,
         IF QLt(volume, MIN_SOLUTION_VOLUME) THEN MIN_SOLUTION_VOLUME ELSE volume)

\* the listener of solution.volumeProperty: the height of the rectangle,
\* beakerHeight being the height of the beaker in view coordinates
volumeListener(volume, beakerVolume, beakerHeight) ==
  linear(beakerVolume, beakerHeight,
         IF QSign(volume) # 0 /\ QLt(volume, MIN_SOLUTION_VOLUME)
         THEN MIN_SOLUTION_VOLUME ELSE volume)

\* volumes of the solution: each millilitre up to 20 mL, half a litre and
\* the volume of the beaker
SolutionVolumes ==
  {QFrac(v, 1000) : v \in 0..20} \cup {Litres(5), Litres(MAX_VOLUME_TENTHS)}

\* beakers of 1.2 L, of some height in view coordinates
Beakers == [volume : {Litres(MAX_VOLUME_TENTHS)}, height : {QInt(1), QInt(400)}]

\* the constructor links the listener, which is called at once
SolutionNodeInit ==
  /\ CoreIdle /\ SoluteIdle /\ RatioIdle /\ GraphIdle
  /\ \E volume \in SolutionVolumes, beaker \in Beakers :
       /\ viewArg = [volume |-> volume, beaker |-> beaker]
       /\ viewOut = [height |-> volumeListener(volume, beaker.volume, beaker.height),
                     before |-> Null]
  /\ viewOp = "new"

\* the volume changes; before: the volume and height that were drawn
SetVolume ==
  /\ \E volume \in SolutionVolumes \ {viewArg.volume} :
       /\ viewArg' = [viewArg EXCEPT !.volume = volume]
       /\ viewOut' = [height |-> volumeListener(volume, viewArg.beaker.volume,
                                                viewArg.beaker.height),
                      before |-> <<[volume |-> viewArg.volume,
                                    height |-> viewOut.height]>>]
  /\ viewOp' = "setVolume"
  /\ UNCHANGED <<coreVars, soluteVars, ratioVars, graphVars>>

SolutionNodeSpec == SolutionNodeInit /\ [][SetVolume]_vars

\* the height that a volume has in the beaker
HeightOfVolume(volume) == linear(viewArg.beaker.volume, viewArg.beaker.height, volume)

\* C25: the drawn height is that of volume 0 for v = 0, of
\* MIN_SOLUTION_VOLUME for 0 < v < 0.015 L and of v otherwise; hence a
\* solution that is not empty is never drawn lower than the minimum volume,
\* and of two volumes drawn one after the other the larger is not drawn lower
C25_FloorOnlyForNonZeroVolumes ==
  viewOp \in {"new", "setVolume"} =>
     LET v == viewArg.volume
         drawn == viewOut.height
     IN  /\ QSign(v) = 0 => QSign(drawn) = 0
         /\ (QSign(v) > 0 /\ QLt(v, MIN_SOLUTION_VOLUME))
              => QEq(drawn, HeightOfVolume(MIN_SOLUTION_VOLUME))
         /\ ~QLt(v, MIN_SOLUTION_VOLUME) => QEq(drawn, HeightOfVolume(v))
         /\ QSign(v) > 0 => ~QLt(drawn, HeightOfVolume(MIN_SOLUTION_VOLUME))
         /\ viewOut.before # Null =>
              LET b == viewOut.before[1]
              IN  /\ QLt(b.volume, v) => ~QLt(drawn, b.height)
                  /\ QLt(v, b.volume) => ~QLt(b.height, drawn)

C25_Witness ==
  /\ viewOp = "setVolume"
  /\ viewArg.volume = QFrac(7, 1000)
  /\ viewOut.before # Null
  /\ QSign(viewOut.before[1].volume) = 0 /\ QSign(viewOut.before[1].height) = 0
  /\ QEq(viewOut.height, HeightOfVolume(MIN_SOLUTION_VOLUME))
  /\ QLt(HeightOfVolume(viewArg.volume), viewOut.height)

====
